---- MODULE Spec2Model ----
(***************************************************************************)
(* Model of src/app.py, the "Document AI Agent": the LLM document          *)
(* classifier (detect_doc_type_llm), the schema selection of the page      *)
(* script, the extraction engine (extract_json_with_confidence and its     *)
(* inner run_once) and the field validator (validate_fields).              *)
(*                                                                         *)
(* Text is modelled as a sequence of tokens or of characters, never as an  *)
(* opaque value: an LLM reply is a sequence of tokens (a code fence ```,   *)
(* the word json, a newline, a blank, prose, or one complete JSON          *)
(* document), so that str.strip, the re.sub of run_once and json.loads     *)
(* are computed on it; a field value handed to validate_fields is a        *)
(* sequence of characters, so that datetime.fromisoformat, float and the   *)
(* regular expressions are computed on it.                                 *)
(*                                                                         *)
(* Python values are tagged records: [t |-> "null"], [t |-> "list"],       *)
(* [t |-> "num", n |-> ..], [t |-> "str", ..], [t |-> "dict", items |-> f] *)
(* with f a function from keys to values.                                  *)
(***************************************************************************)
EXTENDS Integers, Sequences, FiniteSets, TLC

(***************************************************************************)
(* Bounds of the model.                                                    *)
(***************************************************************************)
\* largest retry budget passed to extract_json_with_confidence
MaxRetries == 2
\* largest number of self-consistency runs
MaxRuns == 3
\* longest inner part of an LLM reply, in tokens
MaxBodyLen == 2
\* longest classifier reply, in words
MaxWords == 2

VARIABLES
    \* ---- detect_doc_type_llm
    text,              \* the OCR text, as its length in characters
    cls_pc,            \* "start" | "returned" | "raised"
    cls_reply,         \* the outcome of llm.invoke in the classifier
    doc_type,          \* the value returned by detect_doc_type_llm
    cls_error,         \* whether st.error was shown by the classifier
    cls_sent,          \* length of the excerpt put in the classifier's prompt
    \* ---- schema selection (page script)
    sel_pc,            \* "start" | "selected"
    use_custom_schema, \* the checkbox
    schema_input,      \* the text of the text area, as tokens
    custom_schema,     \* the schema handed to the extraction
    schema_warned,     \* whether the "Invalid JSON schema" error was shown
    \* ---- extract_json_with_confidence
    ext_pc,            \* "running" | "returned" | "raised"
    retries, runs, self_consistency,   \* the arguments
    p,                 \* run_once's local prompt: the prompt and its reminders
    attempt,           \* run_once's loop variable (0-based)
    outputs,           \* the outputs of the finished runs (self-consistency)
    result,            \* the value returned
    exc,               \* the exception that left the function, or "none"
    calls,             \* number of llm.invoke calls made so far
    fails,             \* parse failures of the current (or last) run_once
    sent,              \* the prompt handed to the latest llm.invoke
    sent_attempt,      \* the 1-based attempt of the latest llm.invoke
    reply,             \* the reply on which run_once last returned
    first_direct,      \* json.loads of the first reply of the current run_once
    first_inner,       \* json.loads of J, when that reply is J inside fences
    \* ---- validate_fields
    val_pc,            \* "start" | "returned"
    val_result,        \* the argument: a dict of one field
    issues             \* the list returned

clsVars == <<text, cls_pc, cls_reply, doc_type, cls_error, cls_sent>>
selVars == <<sel_pc, use_custom_schema, schema_input, custom_schema, schema_warned>>
extVars == <<ext_pc, retries, runs, self_consistency, p, attempt, outputs, result,
             exc, calls, fails, sent, sent_attempt, reply,
             first_direct, first_inner>>
valVars == <<val_pc, val_result, issues>>
vars == <<clsVars, selVars, extVars, valVars>>

(***************************************************************************)
(* Python / JSON values.                                                   *)
(***************************************************************************)
PyNone == [t |-> "null"]
PyList == [t |-> "list"]
PyNum(n) == [n |-> n, t |-> "num"]
PyStr(s) == [s |-> s, t |-> "str"]
\* a str whose content is a token sequence (a raw LLM reply)
PyText(toks) == [t |-> "str", toks |-> toks]
PyDict(f) == [items |-> f, t |-> "dict"]

IsDict(v) == v.t = "dict"
HasKey(v, k) == k \in DOMAIN v.items
\* dict.get(k, default)
Get(v, k, default) == IF HasKey(v, k) THEN v.items[k] ELSE default

\* Confidences are exact multiples of 1/(5 * ConfUnit): 0.6, 0.8 and 1.0 are
\* 3, 4 and 5 units of ConfUnit, and halving stays exact for MaxRuns runs.
ConfUnit == 2 ^ MaxRuns
Conf06 == 3 * ConfUnit
Conf08 == 4 * ConfUnit
Conf10 == 5 * ConfUnit

\* {"value": v, "confidence": c}
Field(v, c) == PyDict([confidence |-> PyNum(c), value |-> PyStr(v)])

(***************************************************************************)
(* Tokens of a reply.                                                      *)
(***************************************************************************)
FENCE == [k |-> "fence"]      \* ```
TAG == [k |-> "json_tag"]     \* the letters json
NL == [k |-> "nl"]            \* \n
SP == [k |-> "sp"]            \* a blank
PROSE == [k |-> "prose"]      \* words that are not JSON
Doc(v) == [k |-> "doc", v |-> v]   \* the text of one JSON document

IsSpace(tok) == tok.k \in {"nl", "sp"}

\* str.strip()
RECURSIVE LStrip(_)
LStrip(s) == IF s # << >> /\ IsSpace(Head(s)) THEN LStrip(Tail(s)) ELSE s
RECURSIVE RStrip(_)
RStrip(s) ==
    IF s # << >> /\ IsSpace(s[Len(s)]) THEN RStrip(SubSeq(s, 1, Len(s) - 1)) ELSE s
Strip(s) == RStrip(LStrip(s))

\* re.MULTILINE: ^ matches at the start of the string and after a newline,
\* $ at the end of the string and before a newline
AtLineStart(s, i) == i = 1 \/ s[i - 1].k = "nl"
AtLineEnd(s, i) == i = Len(s) \/ s[i + 1].k = "nl"

\* the pattern without its (?:json)? part: ^```|```$
RECURSIVE SubFromNoTag(_, _)
SubFromNoTag(s, i) ==
    IF i > Len(s) THEN << >>
    ELSE IF s[i].k = "fence" /\ (AtLineStart(s, i) \/ AtLineEnd(s, i))
         THEN SubFromNoTag(s, i + 1)
    ELSE <<s[i]>> \o SubFromNoTag(s, i + 1)

\* re.sub(r"^```(?:json)?|```$", "", s, flags=re.MULTILINE), scanning from i
RECURSIVE SubFrom(_, _)
SubFrom(s, i) ==
    IF i > Len(s) THEN << >>
    ELSE IF s[i].k = "fence" /\ AtLineStart(s, i)
         THEN IF i < Len(s) /\ s[i + 1].k = "json_tag"
              THEN SubFrom(s, i + 2)
              ELSE SubFrom(s, i + 1)
    ELSE IF s[i].k = "fence" /\ AtLineEnd(s, i)
         THEN SubFrom(s, i + 1)
    ELSE <<s[i]>> \o SubFrom(s, i + 1)

CleanOutput(raw) == Strip(SubFrom(raw, 1))

\* json.loads: one JSON document, blanks and newlines around it allowed;
\* anything else raises
JsonLoads(s) ==
    LET body == Strip(s)
    IN  IF Len(body) = 1 /\ body[1].k = "doc"
        THEN [ok |-> TRUE, val |-> body[1].v]
        ELSE [ok |-> FALSE]

(***************************************************************************)
(* The replies the model lets the LLM give.                                *)
(***************************************************************************)
\* JSON documents of the expected shape {field: {value, confidence}}
DocA == PyDict([f |-> Field("v1", Conf06)])
DocB == PyDict([f |-> Field("v2", Conf08)])
DocC == PyDict([f |-> Field("v1", Conf10), g |-> Field("v3", Conf08)])
\* a field without "confidence"
DocD == PyDict([g |-> PyDict([value |-> PyStr("v2")])])
\* a field whose data is a number, not an object
DocFlat == PyDict([f |-> PyNum(1)])
\* a field that is called "error"
DocErrKey == PyDict([error |-> Field("v1", Conf06)])
\* a confidence that is a string
DocStrConf == PyDict([f |-> PyDict([confidence |-> PyStr("high"), value |-> PyStr("v1")])])

CoreDocs == {DocA, DocB, DocC, DocD, DocFlat, DocErrKey, DocStrConf, PyNone}

\* the replies of a self-consistency extraction
CoreReplies == {<<Doc(d)>> : d \in CoreDocs} \cup {<<FENCE, NL, PROSE, NL, FENCE>>}

RECURSIVE SeqsUpTo(_, _)
SeqsUpTo(S, n) ==
    IF n = 0 THEN {<< >>}
    ELSE LET shorter == SeqsUpTo(S, n - 1)
         IN  shorter \cup {Append(s, x) : s \in shorter, x \in S}

BodyAlphabet == {FENCE, TAG, NL, SP, PROSE, Doc(DocA), Doc(PyNone)}
Bodies == SeqsUpTo(BodyAlphabet, MaxBodyLen)
Prefixes == {<< >>, <<FENCE, NL>>, <<FENCE, TAG, NL>>, <<FENCE, TAG>>, <<PROSE, NL>>}
Suffixes == {<< >>, <<NL, FENCE>>, <<FENCE>>, <<NL, FENCE, NL>>, <<NL, PROSE>>}

\* the replies of a single extraction
AllReplies ==
    {pre \o body \o suf : pre \in Prefixes, body \in Bodies, suf \in Suffixes}
    \cup {<<Doc(d)>> : d \in CoreDocs \cup {PyList}}

LLMReplies(sc) == IF sc THEN CoreReplies ELSE AllReplies

(***************************************************************************)
(* extract_json_with_confidence.                                           *)
(***************************************************************************)
\* the defaults of retries and runs
DefaultRetries == 2
DefaultRuns == 3

\* the prompt built from the text and the schema (lines 121-141)
Prompt == <<"prompt">>
Reminder == "reminder"

Unset == [t |-> "unset"]
NoParse == [ok |-> FALSE]

ErrorRecord(raw) ==
    PyDict([error |-> PyStr("Invalid JSON"), raw_output |-> PyText(raw)])

\* p += "\n\n... Reminder: Output must be pure JSON, no text or markdown."
AppendReminder(prompt) == Append(prompt, Reminder)

\* run_once going on from the prompt the earlier run left
RunPromptShared(prompt) == prompt

\* the prompt a new call of run_once starts from: run_once(prompt)
RunPrompt(prompt) == Prompt

\* the comparison one too far: attempt == retries
IsLastAttemptOffByOne(att, rts) == att = rts

\* attempt == retries - 1
IsLastAttempt(att, rts) == att = rts - 1

\* the parsed value returned after the loop instead of inside the try
RunOnceStepLateReturn(r, att, rts) ==
    LET raw_output == Strip(r)
        parsed == JsonLoads(CleanOutput(raw_output))
    IN  IF rts > 0 /\ att = rts - 1
        THEN [failed |-> ~parsed.ok,
              ret |-> TRUE,
              val |-> IF parsed.ok THEN parsed.val
                      ELSE PyDict([error |-> PyStr("Invalid JSON"),
                                   raw_output |-> PyText(raw_output)])]
        ELSE [failed |-> ~parsed.ok, ret |-> FALSE]

\* One iteration of run_once's loop on the reply r: the value returned, or
\* the retry.
RunOnceStep(r, att, rts) ==
    LET raw_output == Strip(r)
        cleaned_output == CleanOutput(raw_output)
        parsed == JsonLoads(cleaned_output)
    IN  IF parsed.ok
        THEN [failed |-> FALSE, ret |-> TRUE, val |-> parsed.val]
        ELSE IF IsLastAttempt(att, rts)
             THEN [failed |-> TRUE, ret |-> TRUE, val |-> ErrorRecord(raw_output)]
             ELSE [failed |-> TRUE, ret |-> FALSE]

\* isinstance(o, dict) and "error" not in o
IsValidRun(o) == IsDict(o) /\ ~HasKey(o, "error")
Valid(outs) == SelectSeq(outs, IsValidRun)

\* the order in which the documents of the model list their keys
KeyOrder == <<"f", "g", "error", "raw_output">>
KeysOf(o) == SelectSeq(KeyOrder, LAMBDA k : HasKey(o, k))

\* the inner loop's body with the halving applied to the new confidence
\* alone: old + new / 2
MergeFieldUnparenthesised(m, fld, data) ==
    IF m.exc # "none" THEN m
    ELSE IF ~IsDict(data)
         THEN [exc |-> "AttributeError", merged |-> m.merged]
    ELSE IF fld \notin DOMAIN m.merged
         THEN [exc |-> "none",
               merged |-> m.merged @@
                   (fld :> PyDict([confidence |-> Get(data, "confidence", PyNum(0)),
                                   value |-> Get(data, "value", PyStr(""))]))]
    ELSE LET old == m.merged[fld].items.confidence
             new == Get(data, "confidence", PyNum(0))
         IN  IF old.t = "num" /\ new.t = "num"
             THEN [exc |-> "none",
                   merged |-> [m.merged EXCEPT ![fld] =
                       PyDict([confidence |-> PyNum(old.n + (new.n \div 2)),
                               value |-> m.merged[fld].items.value])]]
             ELSE [exc |-> "TypeError", merged |-> m.merged]

\* the body of the inner loop for one (field, data), on the state m of the
\* merge: [exc, merged]
MergeField(m, fld, data) ==
    IF m.exc # "none" THEN m
    ELSE IF ~IsDict(data)
         THEN [exc |-> "AttributeError", merged |-> m.merged]
    ELSE IF fld \notin DOMAIN m.merged
         THEN [exc |-> "none",
               merged |-> m.merged @@
                   (fld :> PyDict([confidence |-> Get(data, "confidence", PyNum(0)),
                                   value |-> Get(data, "value", PyStr(""))]))]
    ELSE LET old == m.merged[fld].items.confidence
             new == Get(data, "confidence", PyNum(0))
         IN  IF old.t = "num" /\ new.t = "num"
             THEN [exc |-> "none",
                   merged |-> [m.merged EXCEPT ![fld] =
                       PyDict([confidence |-> PyNum((old.n + new.n) \div 2),
                               value |-> m.merged[fld].items.value])]]
             ELSE [exc |-> "TypeError", merged |-> m.merged]

RECURSIVE MergeRun(_, _, _)
MergeRun(m, o, keys) ==
    IF keys = << >> THEN m
    ELSE MergeRun(MergeField(m, Head(keys), o.items[Head(keys)]), o, Tail(keys))

RECURSIVE MergeRuns(_, _)
MergeRuns(m, valid) ==
    IF valid = << >> THEN m
    ELSE MergeRuns(MergeRun(m, Head(valid), KeysOf(Head(valid))), Tail(valid))

\* lines 162-169
Merge(valid) == MergeRuns([exc |-> "none", merged |-> << >>], valid)

\* lines 158-169: what the function does with the outputs of all the runs
Finish(outs) ==
    LET valid == Valid(outs)
    IN  IF valid = << >>
        THEN [exc |-> "none", val |-> outs[Len(outs)]]
        ELSE LET m == Merge(valid)
             IN  IF m.exc = "none"
                 THEN [exc |-> "none", val |-> PyDict(m.merged)]
                 ELSE [exc |-> m.exc, val |-> Unset]

\* J when the reply is J between an opening ``` or ```json line and a
\* closing ```, else no reply at all
Inner(r) ==
    LET s == Strip(r)
        n == Len(s)
    IN  IF n >= 3 /\ s[1] = FENCE /\ s[n] = FENCE /\ s[2] = NL
        THEN SubSeq(s, 3, n - 1)
        ELSE IF n >= 4 /\ s[1] = FENCE /\ s[n] = FENCE /\ s[2] = TAG /\ s[3] = NL
        THEN SubSeq(s, 4, n - 1)
        ELSE << >>

ExtInit ==
    /\ ext_pc = "running"
    /\ retries \in 1..MaxRetries
    /\ self_consistency \in BOOLEAN
    \* runs is read only under self-consistency; otherwise it keeps its default
    /\ runs \in (IF self_consistency THEN 1..MaxRuns ELSE {DefaultRuns})
    /\ p = Prompt
    /\ attempt = 0
    /\ outputs = << >>
    /\ result = Unset
    /\ exc = "none"
    /\ calls = 0
    /\ fails = 0
    /\ sent = << >>
    /\ sent_attempt = 0
    /\ reply = << >>
    /\ first_direct = NoParse
    /\ first_inner = NoParse

\* run_once has returned o
Returned(o) ==
    IF ~self_consistency
    THEN /\ result' = o
         /\ ext_pc' = "returned"
         /\ UNCHANGED <<outputs, exc, p, attempt>>
    ELSE LET outs == Append(outputs, o)
         IN  /\ outputs' = outs
             /\ IF Len(outs) < runs
                THEN /\ p' = RunPrompt(p)
                     /\ attempt' = 0
                     /\ UNCHANGED <<ext_pc, result, exc>>
                ELSE LET fin == Finish(outs)
                     IN  /\ result' = fin.val
                         /\ exc' = fin.exc
                         /\ ext_pc' = IF fin.exc = "none" THEN "returned" ELSE "raised"
                         /\ UNCHANGED <<p, attempt>>

\* llm.invoke(p) answers r: one iteration of run_once's loop, and all that
\* follows it up to the next llm.invoke or the end of the function
Invoke(r) ==
    /\ ext_pc = "running"
    /\ calls' = calls + 1
    /\ sent' = p
    /\ sent_attempt' = attempt + 1
    /\ first_direct' = IF attempt = 0 THEN JsonLoads(Strip(r)) ELSE first_direct
    /\ first_inner' = IF attempt = 0 THEN JsonLoads(Inner(r)) ELSE first_inner
    /\ LET step == RunOnceStep(r, attempt, retries)
       IN  /\ fails' = IF attempt = 0 THEN (IF step.failed THEN 1 ELSE 0)
                       ELSE (IF step.failed THEN fails + 1 ELSE fails)
           /\ IF step.ret
              THEN /\ reply' = r
                   /\ Returned(step.val)
              ELSE /\ reply' = << >>
                   /\ p' = AppendReminder(p)
                   /\ attempt' = attempt + 1
                   /\ UNCHANGED <<ext_pc, outputs, result, exc>>
    /\ UNCHANGED <<retries, runs, self_consistency>>
    /\ UNCHANGED <<clsVars, selVars, valVars>>

\* llm.invoke(p) raises: nothing in the function catches it
InvokeRaises ==
    /\ ext_pc = "running"
    /\ calls' = calls + 1
    /\ sent' = p
    /\ sent_attempt' = attempt + 1
    /\ exc' = "LLMError"
    /\ ext_pc' = "raised"
    /\ UNCHANGED <<retries, runs, self_consistency, p, attempt, outputs, result,
                   fails, reply, first_direct, first_inner>>
    /\ UNCHANGED <<clsVars, selVars, valVars>>

InvokeReplies == \E r \in LLMReplies(self_consistency) : Invoke(r)

(***************************************************************************)
(* detect_doc_type_llm.                                                    *)
(***************************************************************************)
\* text[:1500]
ExcerptLimit == 1500
Excerpt(len) == IF len > ExcerptLimit THEN ExcerptLimit ELSE len

Categories == <<"invoice", "receipt", "prescription", "resume", "general">>
CategorySet == {Categories[i] : i \in 1..Len(Categories)}

\* A word of the reply: its lower-case spelling, and whether the reply
\* spells it with capitals. "invoices" has "invoice" as a substring.
Vocabulary == CategorySet \cup {"invoices", "other"}
Words == {[upper |-> u, w |-> v] : v \in Vocabulary, u \in BOOLEAN}
Substrings(w) == IF w = "invoices" THEN {"invoices", "invoice"} ELSE {w}

\* str.lower()
Lower(content) == [i \in 1..Len(content) |-> [upper |-> FALSE, w |-> content[i].w]]

\* name in category
Contains(category, name) ==
    \E i \in 1..Len(category) : ~category[i].upper /\ name \in Substrings(category[i].w)

\* what llm.invoke and response.content can give: a str, something that is
\* not a str (no .strip), or an exception
ClsContents == SeqsUpTo(Words, MaxWords)
ClsFailures == {"not_str", "raise"}

\* the handler showing the error and raising again
OnClassifierErrorReraise == [error |-> TRUE, raised |-> TRUE, ret |-> "unset"]

\* the except branch: st.error(...); return "general"
OnClassifierError == [error |-> TRUE, raised |-> FALSE, ret |-> "general"]

\* the if/elif chain on the lower-cased reply
MatchCategory(category) ==
    IF Contains(category, "invoice") THEN "invoice"
    ELSE IF Contains(category, "receipt") THEN "receipt"
    ELSE IF Contains(category, "prescription") THEN "prescription"
    ELSE IF Contains(category, "resume") THEN "resume"
    ELSE "general"

\* the try block and its handler
DetectDocTypeLLM(outcome) ==
    IF outcome.kind = "reply"
    THEN [error |-> FALSE, raised |-> FALSE, ret |-> MatchCategory(Lower(outcome.content))]
    ELSE OnClassifierError

Texts == {0, 1, ExcerptLimit - 1, ExcerptLimit, ExcerptLimit + 1, 2 * ExcerptLimit}

ClsInit ==
    /\ text \in Texts
    /\ cls_pc = "start"
    /\ cls_reply = [kind |-> "none"]
    /\ doc_type = "unset"
    /\ cls_error = FALSE
    /\ cls_sent = 0

Classify(outcome) ==
    /\ cls_pc = "start"
    /\ cls_sent' = Excerpt(text)
    /\ cls_reply' = outcome
    /\ LET r == DetectDocTypeLLM(outcome)
       IN  /\ doc_type' = r.ret
           /\ cls_error' = r.error
           /\ cls_pc' = IF r.raised THEN "raised" ELSE "returned"
    /\ UNCHANGED text
    /\ UNCHANGED <<selVars, extVars, valVars>>

ClassifyReply == \E c \in ClsContents : Classify([content |-> c, kind |-> "reply"])
ClassifyFails == \E k \in ClsFailures : Classify([kind |-> k])

(***************************************************************************)
(* The schema registry and the schema selection of the page.               *)
(***************************************************************************)
SCHEMAS ==
    [general |-> PyDict([document_title |-> PyStr("string"),
                         key_points |-> PyStr("list of strings")]),
     invoice |-> PyDict([currency |-> PyStr("string"),
                         date |-> PyStr("YYYY-MM-DD"),
                         invoice_number |-> PyStr("string"),
                         total_amount |-> PyStr("float"),
                         vendor_name |-> PyStr("string")]),
     prescription |-> PyDict([date |-> PyStr("YYYY-MM-DD"),
                              doctor_name |-> PyStr("string"),
                              medications |-> PyStr("list of strings"),
                              patient_name |-> PyStr("string")]),
     receipt |-> PyDict([date |-> PyStr("YYYY-MM-DD"),
                         items |-> PyStr("list of item names"),
                         store_name |-> PyStr("string"),
                         total_amount |-> PyStr("float")]),
     resume |-> PyDict([education |-> PyStr("list of {degree, institution, year}"),
                        email |-> PyStr("string"),
                        experience |-> PyStr("list of {company, role, duration}"),
                        name |-> PyStr("string"),
                        phone |-> PyStr("string"),
                        projects |-> PyStr("list of {title, description, duration}"),
                        skills |-> PyStr("list of strings")])]

\* a schema of the user's own
UserSchema == PyDict([amount |-> PyStr("float"), title |-> PyStr("string")])

\* what the user can leave in the text area
SchemaDocs ==
    {SCHEMAS[c] : c \in CategorySet}
    \cup {UserSchema, PyList, PyNone, PyNum(42), PyStr("invoice")}
SchemaInputs ==
    {<<Doc(d)>> : d \in SchemaDocs}
    \cup {<<NL, Doc(UserSchema), SP>>,
          << >>, <<PROSE>>, <<Doc(UserSchema), PROSE>>,
          <<FENCE, TAG, NL, Doc(UserSchema), NL, FENCE>>}

\* lines 230-238: the schema and whether st.error was shown
ChooseSchema(use_custom, input, dt) ==
    IF use_custom
    THEN LET parsed == JsonLoads(input)
         IN  IF parsed.ok
             THEN [schema |-> parsed.val, warned |-> FALSE]
             ELSE [schema |-> SCHEMAS[dt], warned |-> TRUE]
    ELSE [schema |-> SCHEMAS[dt], warned |-> FALSE]

SelInit ==
    /\ sel_pc = "start"
    /\ use_custom_schema \in BOOLEAN
    /\ schema_input \in SchemaInputs
    /\ custom_schema = Unset
    /\ schema_warned = FALSE

SelectSchema ==
    /\ sel_pc = "start"
    /\ LET c == ChooseSchema(use_custom_schema, schema_input, doc_type)
       IN  /\ custom_schema' = c.schema
           /\ schema_warned' = c.warned
    /\ sel_pc' = "selected"
    /\ UNCHANGED <<use_custom_schema, schema_input>>
    /\ UNCHANGED <<clsVars, extVars, valVars>>

(***************************************************************************)
(* validate_fields.  Field names and values are sequences of characters;   *)
(* "rupee", "euro", "pound" and "yen" stand for the currency signs.        *)
(***************************************************************************)
Digits == {"0", "1", "2", "3", "4", "5", "6", "7", "8", "9"}
DigitValue ==
    ("0" :> 0) @@ ("1" :> 1) @@ ("2" :> 2) @@ ("3" :> 3) @@ ("4" :> 4) @@
    ("5" :> 5) @@ ("6" :> 6) @@ ("7" :> 7) @@ ("8" :> 8) @@ ("9" :> 9)
LowerLetters == {"a", "b", "c", "d", "e", "h", "i", "k", "l", "m", "n", "o", "p",
                 "q", "r", "s", "t", "u", "v", "x", "y", "z"}
UpperLetters == {"D", "S", "T", "U", "X", "Y", "Z"}
IsDigit(c) == c \in Digits
\* \w
IsWordChar(c) == c \in Digits \cup LowerLetters \cup UpperLetters \cup {"_"}

AllDigits(s) == \A i \in 1..Len(s) : IsDigit(s[i])

\* int() of a string of digits
RECURSIVE ToInt(_)
ToInt(s) ==
    IF s = << >> THEN 0
    ELSE 10 * ToInt(SubSeq(s, 1, Len(s) - 1)) + DigitValue[s[Len(s)]]

\* str.lower() and str.upper(), on the letters of the model
LowerChar(c) ==
    CASE c = "D" -> "d" [] c = "S" -> "s" [] c = "U" -> "u" [] c = "X" -> "x"
      [] c = "Y" -> "y" [] c = "Z" -> "z" [] c = "T" -> "t" [] OTHER -> c
UpperChar(c) ==
    CASE c = "d" -> "D" [] c = "s" -> "S" [] c = "u" -> "U" [] c = "x" -> "X"
      [] c = "y" -> "Y" [] c = "z" -> "Z" [] c = "t" -> "T" [] OTHER -> c
LowerStr(s) == [i \in 1..Len(s) |-> LowerChar(s[i])]
UpperStr(s) == [i \in 1..Len(s) |-> UpperChar(s[i])]

\* str.strip() of a character string
RECURSIVE StripChars(_)
StripChars(s) ==
    IF s # << >> /\ Head(s) = " " THEN StripChars(Tail(s))
    ELSE IF s # << >> /\ s[Len(s)] = " " THEN StripChars(SubSeq(s, 1, Len(s) - 1))
    ELSE s

\* str.replace(c, "") for a one-character c
Remove(s, c) == SelectSeq(s, LAMBDA x : x # c)

\* k in s
IsSubstring(k, s) ==
    \E i \in 0..(Len(s) - Len(k)) : SubSeq(s, i + 1, i + Len(k)) = k

IsLeap(y) == (y % 4 = 0 /\ y % 100 # 0) \/ y % 400 = 0
DaysInMonth(y, m) ==
    IF m = 2 THEN (IF IsLeap(y) THEN 29 ELSE 28)
    ELSE IF m \in {4, 6, 9, 11} THEN 30 ELSE 31

\* the date part YYYY-MM-DD of datetime.fromisoformat
IsoDateOK(s) ==
    /\ Len(s) = 10
    /\ s[5] = "-" /\ s[8] = "-"
    /\ AllDigits(SubSeq(s, 1, 4)) /\ AllDigits(SubSeq(s, 6, 7)) /\ AllDigits(SubSeq(s, 9, 10))
    /\ LET y == ToInt(SubSeq(s, 1, 4))
           m == ToInt(SubSeq(s, 6, 7))
           d == ToInt(SubSeq(s, 9, 10))
       IN  y >= 1 /\ m >= 1 /\ m <= 12 /\ d >= 1 /\ d <= DaysInMonth(y, m)
\* the time part HH:MM
IsoTimeOK(s) ==
    /\ Len(s) = 5
    /\ s[3] = ":"
    /\ AllDigits(SubSeq(s, 1, 2)) /\ AllDigits(SubSeq(s, 4, 5))
    /\ ToInt(SubSeq(s, 1, 2)) <= 23 /\ ToInt(SubSeq(s, 4, 5)) <= 59
\* datetime.fromisoformat(val) does not raise.  Of the forms it accepts, the
\* values of the model use YYYY-MM-DD and YYYY-MM-DD, one character, HH:MM.
FromIsoformatOK(s) ==
    \/ IsoDateOK(s)
    \/ /\ Len(s) = 16
       /\ IsoDateOK(SubSeq(s, 1, 10))
       /\ IsoTimeOK(SubSeq(s, 12, 16))

\* the positions at which lo..hi digits, read from position i, can end
DigitRunEnds(s, i, lo, hi) ==
    {j \in (i + lo - 1)..(i + hi - 1) : j <= Len(s) /\ AllDigits(SubSeq(s, i, j))}
IsDateSep(s, i) == i <= Len(s) /\ s[i] \in {"/", "-"}
\* re.match(r"\d{1,2}[/-]\d{1,2}[/-]\d{2,4}", val): a match at the start,
\* anything may follow
LooseDateMatch(s) ==
    \E a \in DigitRunEnds(s, 1, 1, 2) :
        /\ IsDateSep(s, a + 1)
        /\ \E b \in DigitRunEnds(s, a + 2, 1, 2) :
              /\ IsDateSep(s, b + 1)
              /\ DigitRunEnds(s, b + 2, 2, 4) # {}

\* the date rule without its pattern: flagged whenever fromisoformat raises
DateIssueIsoOnly(val) == ~FromIsoformatOK(val)

\* the date rule: the issue is added when fromisoformat raises and the
\* pattern does not match
DateIssue(val) == ~FromIsoformatOK(val) /\ ~LooseDateMatch(val)

\* float(s) does not raise: blanks around, a sign, digits with at most one
\* point and at least one digit (the values of the model hold no exponent,
\* no underscore, no inf and no nan)
FloatOK(s) ==
    LET t == StripChars(s)
        u == IF t # << >> /\ Head(t) \in {"+", "-"} THEN Tail(t) ELSE t
        d == Remove(u, ".")
    IN  /\ d # << >>
        /\ AllDigits(d)
        /\ Len(u) - Len(d) <= 1
NumericIssue(val) == ~FloatOK(Remove(Remove(Remove(val, ","), "$"), "rupee"))

\* [\w\.-]
IsEmailChar(c) == IsWordChar(c) \/ c \in {".", "-"}
\* re.match(r"^[\w\.-]+@[\w\.-]+\.\w+$", val)
EmailMatch(s) ==
    \E a \in 2..Len(s) : \E d \in (a + 2)..(Len(s) - 1) :
        /\ s[a] = "@"
        /\ \A i \in 1..(a - 1) : IsEmailChar(s[i])
        /\ \A i \in (a + 1)..(d - 1) : IsEmailChar(s[i])
        /\ s[d] = "."
        /\ \A i \in (d + 1)..Len(s) : IsWordChar(s[i])
EmailIssue(val) == ~EmailMatch(val)

\* re.match(r"^\+?\d{7,15}$", val.replace(" ", "").replace("-", ""))
PhoneMatch(s) ==
    LET t == Remove(Remove(s, " "), "-")
        d == IF t # << >> /\ Head(t) = "+" THEN Tail(t) ELSE t
    IN  AllDigits(d) /\ Len(d) >= 7 /\ Len(d) <= 15
PhoneIssue(val) == ~PhoneMatch(val)

valid_currencies ==
    {<<"U", "S", "D">>, <<"I", "N", "R">>, <<"E", "U", "R">>, <<"G", "B", "P">>,
     <<"J", "P", "Y">>, <<"C", "A", "D">>, <<"A", "U", "D">>,
     <<"$">>, <<"rupee">>, <<"euro">>, <<"pound">>, <<"yen">>}
CurrencyIssue(val) == UpperStr(val) \notin valid_currencies

KwDate == {<<"d", "a", "t", "e">>}
KwNumeric ==
    {<<"a", "m", "o", "u", "n", "t">>,
     <<"t", "o", "t", "a", "l">>,
     <<"p", "r", "i", "c", "e">>,
     <<"q", "t", "y">>,
     <<"q", "u", "a", "n", "t", "i", "t", "y">>}
KwEmail == {<<"e", "m", "a", "i", "l">>}
KwPhone == {<<"p", "h", "o", "n", "e">>,
     <<"c", "o", "n", "t", "a", "c", "t">>}
KwCurrency == {<<"c", "u", "r", "r", "e", "n", "c", "y">>}

HasKeyword(field, kws) == \E k \in kws : IsSubstring(k, LowerStr(field))

Issue(field, what, val) == [field |-> field, issue |-> what, val |-> val]

\* the issues of one field, in the order the rules are written
FieldIssues(field, data) ==
    IF ~IsDict(data) \/ ~HasKey(data, "value") THEN << >>
    ELSE LET val == StripChars(data.items.value.s)
         IN  (IF HasKeyword(field, KwDate) /\ DateIssue(val)
              THEN <<Issue(field, "invalid date", val)>> ELSE << >>)
             \o (IF HasKeyword(field, KwNumeric) /\ NumericIssue(val)
                 THEN <<Issue(field, "not numeric", val)>> ELSE << >>)
             \o (IF HasKeyword(field, KwEmail) /\ EmailIssue(val)
                 THEN <<Issue(field, "not a valid email", val)>> ELSE << >>)
             \o (IF HasKeyword(field, KwPhone) /\ PhoneIssue(val)
                 THEN <<Issue(field, "not a valid phone number", val)>> ELSE << >>)
             \o (IF HasKeyword(field, KwCurrency) /\ CurrencyIssue(val)
                 THEN <<Issue(field, "not a valid currency code", val)>> ELSE << >>)

\* validate_fields on a result given as the sequence of its (field, data)
RECURSIVE ValidateFields(_)
ValidateFields(items) ==
    IF items = << >> THEN << >>
    ELSE FieldIssues(Head(items).field, Head(items).data) \o ValidateFields(Tail(items))

FieldNames ==
    {<<"i", "n", "v", "o", "i", "c", "e", "_", "d", "a", "t", "e">>,
     <<"D", "a", "t", "e">>,
     <<"t", "o", "t", "a", "l", "_", "a", "m", "o", "u", "n", "t">>,
     <<"e", "m", "a", "i", "l">>,
     <<"p", "h", "o", "n", "e">>,
     <<"c", "u", "r", "r", "e", "n", "c", "y">>,
     <<"v", "e", "n", "d", "o", "r", "_", "n", "a", "m", "e">>,
     <<"c", "a", "n", "d", "i", "d", "a", "t", "e", "_", "e", "m", "a", "i", "l">>,
     <<"q", "t", "y">>}

DateFirst == {<<"2", "0", "2", "4">>,
     <<"2", "0", "2", "3">>,
     <<"2", "4">>,
     <<"1">>,
     <<"1", "5">>}
DateSecond == {<<"0", "1">>,
     <<"0", "2">>,
     <<"1", "3">>,
     <<"1">>,
     <<"1", "2">>}
DateThird == {<<"1", "5">>,
     <<"4", "5">>,
     <<"2", "9">>,
     <<"3", "1">>,
     <<"5">>,
     <<"2", "0", "2", "4">>}
DateSeps == {"-", "/", "."}
DateTails == {<< >>, <<"T", "1", "0", ":", "3", "0">>, <<"T", "2", "5", ":", "0", "0">>}
DateValues ==
    {a \o <<s1>> \o b \o <<s2>> \o c \o t :
        a \in DateFirst, s1 \in DateSeps, b \in DateSecond, s2 \in DateSeps,
        c \in DateThird, t \in DateTails}
OtherValues ==
    {<<"a", "b", "c">>,
     <<"$", "1", ",", "2", "3", "4", ".", "5", "0">>,
     <<"1", ",", "2", "3", "4", ".", "5", "0">>,
     <<"rupee", "5", "0", "0">>,
     <<"1", "2", ".", "5">>,
     <<"-", "3">>,
     <<"a", "@", "b", ".", "c", "o">>,
     <<"a", ".", "b", "-", "c", "@", "d", ".", "c", "o", ".", "u", "k">>,
     <<"a", "@", "b">>,
     <<"a", "@", "@", "b", ".", "c", "o">>,
     <<"+", "9", "1", " ", "9", "8", "7", "6", "5", "-", "4", "3", "2", "1", "0">>,
     <<"1", "2", "3", "4", "5">>,
     <<"1", "2", "3", "4", "5", "6", "7">>,
     <<"U", "S", "D">>,
     <<"u", "s", "d">>,
     <<"U", "s", "d">>,
     <<"$">>,
     <<"rupee">>,
     <<"X", "Y", "Z">>,
     <<"U", "S">>,
     << >>,
     <<" ", "2", "0", "2", "4", "-", "0", "1", "-", "1", "5", " ">>,
     <<" ", "7", " ">>}
FieldValues == DateValues \cup OtherValues

\* the data of a field: {value, confidence}, or a dict without "value", or
\* a bare string
FieldData ==
    {PyDict([confidence |-> PyNum(Conf08), value |-> PyStr(v)]) : v \in FieldValues}
    \cup {PyDict([confidence |-> PyNum(Conf08)]), PyStr(<<"a", "b", "c">>)}

ValInit ==
    /\ val_pc = "start"
    /\ val_result \in {<<[data |-> d, field |-> f]>> : f \in FieldNames, d \in FieldData}
    /\ issues = << >>

Validate ==
    /\ val_pc = "start"
    /\ issues' = ValidateFields(val_result)
    /\ val_pc' = "returned"
    /\ UNCHANGED val_result
    /\ UNCHANGED <<clsVars, selVars, extVars>>

(***************************************************************************)
(* Specifications.                                                         *)
(***************************************************************************)
\* a component that the specification at hand does not run
ClsIdle ==
    /\ text = 0 /\ cls_pc = "idle" /\ cls_reply = [kind |-> "none"]
    /\ doc_type = "general" /\ cls_error = FALSE /\ cls_sent = 0
SelIdle ==
    /\ sel_pc = "idle" /\ use_custom_schema = FALSE /\ schema_input = << >>
    /\ custom_schema = Unset /\ schema_warned = FALSE
ExtIdle ==
    /\ ext_pc = "idle" /\ retries = 0 /\ runs = 0 /\ self_consistency = FALSE
    /\ p = << >> /\ attempt = 0 /\ outputs = << >> /\ result = Unset
    /\ exc = "none" /\ calls = 0 /\ fails = 0 /\ sent = << >> /\ sent_attempt = 0
    /\ reply = << >> /\ first_direct = NoParse /\ first_inner = NoParse
ValIdle ==
    /\ val_pc = "idle" /\ val_result = Unset /\ issues = << >>

\* the classifier on every text and every outcome of the LLM call
InitClassify == ClsInit /\ SelIdle /\ ExtIdle /\ ValIdle
NextClassify == ClassifyReply \/ ClassifyFails
SpecClassify == InitClassify /\ [][NextClassify]_vars

\* the schema selection for every detected category and every text
InitSchema ==
    /\ SelInit /\ ExtIdle /\ ValIdle
    /\ text = 0 /\ cls_pc = "returned" /\ cls_reply = [kind |-> "none"]
    /\ doc_type \in CategorySet /\ cls_error = FALSE /\ cls_sent = 0
NextSchema == SelectSchema
SpecSchema == InitSchema /\ [][NextSchema]_vars

\* the extraction engine on every sequence of LLM replies
InitExtract == ExtInit /\ ClsIdle /\ SelIdle /\ ValIdle
NextExtract == InvokeReplies \/ InvokeRaises
SpecExtract == InitExtract /\ [][NextExtract]_vars

\* the validator on every one-field result
InitValidate == ValInit /\ ClsIdle /\ SelIdle /\ ExtIdle
NextValidate == Validate
SpecValidate == InitValidate /\ [][NextValidate]_vars

(***************************************************************************)
(* Properties.                                                             *)
(***************************************************************************)
\* {field: {value, confidence}}
IsFieldData(d) == IsDict(d) /\ DOMAIN d.items = {"value", "confidence"}
IsExpectedShape(v) == IsDict(v) /\ \A k \in DOMAIN v.items : IsFieldData(v.items[k])
\* a mapping from field names to objects
IsFieldMapping(v) == IsDict(v) /\ \A k \in DOMAIN v.items : IsDict(v.items[k])
\* {"raw_output": <a reply>, "error": "Invalid JSON"}
IsErrorRecord(v) ==
    /\ IsDict(v)
    /\ DOMAIN v.items = {"raw_output", "error"}
    /\ v.items.error = PyStr("Invalid JSON")
    /\ DOMAIN v.items.raw_output = {"t", "toks"}
\* the prompt followed by n reminders
PromptWith(n) == Prompt \o [i \in 1..n |-> Reminder]

\* C1: detect_doc_type_llm returns, for every text and every outcome of the
\* LLM call, one of the five categories and never raises; when the call
\* raises, it returns "general".
C1_ClassifierClosed ==
    cls_pc # "start" =>
        /\ cls_pc = "returned"
        /\ doc_type \in {"invoice", "receipt", "prescription", "resume", "general"}
        /\ (cls_reply.kind = "raise" => doc_type = "general")
\* the LLM call raised and the classifier returned
C1_Witness ==
    cls_pc = "returned" /\ cls_reply.kind = "raise" /\ doc_type = "general" /\ cls_error

\* C2: without self-consistency, when the reply of every attempt fails to
\* parse, the LLM is invoked exactly retries times and the function returns
\* the error record holding the stripped, uncleaned reply of the last
\* attempt; nothing is raised.
C2_AllAttemptsFail ==
    /\ (~self_consistency /\ ext_pc = "running") => calls < retries
    /\ (~self_consistency /\ ext_pc # "running" /\ fails = calls) =>
          /\ ext_pc = "returned"
          /\ exc = "none"
          /\ calls = retries
          /\ result = PyDict([error |-> PyStr("Invalid JSON"),
                              raw_output |-> PyText(Strip(reply))])
\* two attempts failed, the last on a fenced reply whose raw text is not its
\* cleaned text
C2_Witness ==
    /\ ~self_consistency /\ ext_pc = "returned"
    /\ retries = DefaultRetries /\ calls = retries /\ fails = calls
    /\ IsErrorRecord(result)
    /\ CleanOutput(Strip(reply)) # Strip(reply)

\* C3: without self-consistency, when the first reply is valid JSON of the
\* shape {field: {value, confidence}}, the function returns that JSON
\* deserialized after exactly one call, made with the prompt as built.
C3_ValidFirstReply ==
    (~self_consistency /\ calls >= 1 /\ first_direct.ok /\ IsExpectedShape(first_direct.val)) =>
        /\ ext_pc = "returned"
        /\ exc = "none"
        /\ result = first_direct.val
        /\ calls = 1
        /\ sent = Prompt
        /\ p = Prompt
\* a valid first reply with blanks around it, under a budget of two attempts
C3_Witness ==
    /\ ~self_consistency /\ ext_pc = "returned" /\ retries = DefaultRetries
    /\ calls = 1 /\ first_direct.ok /\ IsExpectedShape(first_direct.val)
    /\ result = DocA
    /\ Len(reply) > 1

\* C4: extract_json_with_confidence returns either a mapping from field
\* names to {value, confidence} or the error record, never another kind of
\* value, and never raises because of what a reply holds.
C4_MappingOrErrorRecord ==
    (ext_pc # "running" /\ exc # "LLMError") =>
        /\ ext_pc = "returned"
        /\ IsFieldMapping(result) \/ IsErrorRecord(result)

\* the fields of the valid runs
FieldsOf(outs) == UNION {DOMAIN outs[i].items : i \in 1..Len(outs)}
\* the confidence a run reports for a field (0 when it reports none)
ConfOf(o, fld) == Get(o.items[fld], "confidence", PyNum(0))
\* c[1] + c[2] + 2 c[3] + 4 c[4] + ... : 2^(k-1) times the running average
\* of c[1..k]
RECURSIVE Weighted(_, _, _)
Weighted(seq, fld, k) ==
    IF k = 1 THEN ConfOf(seq[1], fld).n
    ELSE Weighted(seq, fld, k - 1) + (2 ^ (k - 2)) * ConfOf(seq[k], fld).n

\* C5: under self-consistency the merged result has, for every field, the
\* value of the first valid run that holds the field and the running
\* pairwise average of the confidences of the valid runs that hold it, in
\* order; 0.6, 0.8, 1.0 merge to 0.85, not to the mean 0.8.
C5_MergeRunningAverage ==
    (self_consistency /\ ext_pc = "returned" /\ Valid(outputs) # << >>) =>
        /\ IsDict(result)
        /\ DOMAIN result.items = FieldsOf(Valid(outputs))
        /\ \A fld \in DOMAIN result.items :
              LET with == SelectSeq(Valid(outputs), LAMBDA o : HasKey(o, fld))
                  k == Len(with)
                  got == result.items[fld].items
              IN  /\ got.value = Get(with[1].items[fld], "value", PyStr(""))
                  /\ IF k = 1 THEN got.confidence = ConfOf(with[1], fld)
                     ELSE got.confidence.n * (2 ^ (k - 1)) = Weighted(with, fld, k)
        /\ outputs = <<DocA, DocB, DocC>> =>
              /\ 20 * result.items.f.items.confidence.n = 17 * Conf10
              /\ result.items.f.items.confidence.n # Conf08
\* three valid runs reporting 0.6, 0.8 and 1.0 for f, merged to 0.85
C5_Witness ==
    /\ self_consistency /\ ext_pc = "returned"
    /\ outputs = <<DocA, DocB, DocC>>
    /\ result.items.f = Field("v1", (17 * Conf10) \div 20)

\* C6: under self-consistency the runs discarded are those that produced an
\* error record; with a valid run left the result is the merge of the valid
\* runs only, and with none left the function returns the last run's error
\* record.
C6_ErrorRunsDiscarded ==
    (self_consistency /\ ext_pc # "running" /\ exc # "LLMError") =>
        /\ \A i \in 1..Len(outputs) : IsValidRun(outputs[i]) <=> ~IsErrorRecord(outputs[i])
        /\ ext_pc = "returned"
        /\ IF Valid(outputs) # << >>
           THEN IsDict(result) /\ DOMAIN result.items = FieldsOf(Valid(outputs))
           ELSE result = outputs[Len(outputs)] /\ IsErrorRecord(result)

\* C7: when the first reply is a JSON text J between an opening ``` or
\* ```json line and a closing ```, run_once returns on that attempt what
\* parsing J directly gives.
C7_FencedReply ==
    (~self_consistency /\ calls >= 1 /\ first_inner.ok) =>
        /\ ext_pc = "returned"
        /\ exc = "none"
        /\ result = first_inner.val
        /\ calls = 1
\* a reply that json.loads refuses as it stands, returned as its inner JSON
C7_Witness ==
    /\ ~self_consistency /\ ext_pc = "returned" /\ calls = 1
    /\ first_inner.ok /\ ~first_direct.ok
    /\ result = DocA
    /\ reply[1] = FENCE /\ reply[2] = TAG /\ reply[3] = NL

\* the one field of the result, when its name holds "date" and the keyword
\* of no other rule, and its data holds a value
OnlyDateRule(field) ==
    /\ HasKeyword(field, KwDate)
    /\ ~HasKeyword(field, KwNumeric \cup KwEmail \cup KwPhone \cup KwCurrency)
DateCase ==
    /\ val_pc = "returned"
    /\ Len(val_result) = 1
    /\ OnlyDateRule(val_result[1].field)
    /\ IsDict(val_result[1].data) /\ HasKey(val_result[1].data, "value")

IsSchemaObject(v) == IsDict(v) /\ \A k \in DOMAIN v.items : v.items[k].t = "str"

\* C9: with the custom schema option, the schema used is the user's text
\* deserialized only if it deserializes to an object mapping field names to
\* type hints; for every other text it is SCHEMAS[doc_type] and a warning
\* is shown.
C9_CustomSchemaFallback ==
    (sel_pc = "selected" /\ use_custom_schema) =>
        LET parsed == JsonLoads(schema_input)
        IN  IF parsed.ok /\ IsSchemaObject(parsed.val)
            THEN custom_schema = parsed.val /\ ~schema_warned
            ELSE custom_schema = SCHEMAS[doc_type] /\ schema_warned

\* C10: the prompt sent on attempt k of a run is the prompt as built followed
\* by k-1 reminders, k never exceeds retries, a reminder is added only after
\* a parse failure that is not the last attempt, and every run starts from
\* the prompt as built whatever the earlier runs appended.
C10_PromptAccumulation ==
    /\ calls >= 1 =>
          /\ sent_attempt >= 1 /\ sent_attempt <= retries
          /\ sent = PromptWith(sent_attempt - 1)
    /\ ext_pc = "running" =>
          /\ p = PromptWith(attempt)
          /\ attempt < retries
          /\ attempt > 0 => fails = attempt
\* the second run's first call, made with the prompt as built after the
\* first run failed twice and appended a reminder
C10_Witness ==
    /\ self_consistency /\ retries = DefaultRetries
    /\ Len(outputs) = 1 /\ IsErrorRecord(outputs[1])
    /\ calls = retries + 1 /\ sent_attempt = 1 /\ sent = Prompt
    /\ ext_pc = "running" /\ attempt = 1 /\ p = PromptWith(1)

====
